---- MODULE Spec2Model ----
(***************************************************************************)
(* Verification model of the AP2 travel-agent frontend.                    *)
(*                                                                         *)
(*   - AP2Debugger.jsx : reconnecting log-stream client, log classifier,   *)
(*                       the two bounded history buffers                   *)
(*   - CheckoutFlow.jsx, TravelPlanner.jsx, App.jsx : the five-stage       *)
(*                       checkout sequencer and the session it runs in     *)
(*   - MandateViewer.jsx : the tamper verdict of the mandate viewer        *)
(*                                                                         *)
(* JavaScript values are modelled as follows.  Strings are TLA+ strings    *)
(* and the string methods are computed character by character.  null and  *)
(* undefined are the strings "null" and "undefined" where a field may hold *)
(* them.  A parsed JSON value is a record with a field `type`.             *)
(***************************************************************************)
EXTENDS Integers, Sequences, FiniteSets, TLC

\* ------------------------------------------------------------------------
\* Bounds of the model
\* ------------------------------------------------------------------------
\* connection errors the environment may raise
MaxErrors == 3
\* stream events delivered between two clears, in Spec and SpecLive
MaxRecords == 2
\* stream events delivered between two clears, in SpecBuf
MaxArrivals == 503
\* leading stream events of SpecBuf whose content is chosen freely
RichPrefix == 2
\* chat messages the user may send
MaxChats == 1
\* session resets the user may start
MaxResets == 1
\* chat messages the user may send in SpecPlanner
MaxPlannerChats == 2
\* pending timers of the viewer's Copy button
MaxCopies == 3

\* ------------------------------------------------------------------------
\* JavaScript string helpers
\* ------------------------------------------------------------------------
Char(s, i) == SubSeq(s, i, i)

SetMin(S) == CHOOSE x \in S : \A y \in S : x <= y

SetMax(S) == CHOOSE x \in S : \A y \in S : x >= y

\* String.prototype.indexOf, 1-based, 0 when absent
IndexOf(s, sub) ==
    LET hits == {i \in 1..(Len(s) - Len(sub) + 1) : SubSeq(s, i, i + Len(sub) - 1) = sub}
    IN IF hits = {} THEN 0 ELSE SetMin(hits)

\* String.prototype.includes
Includes(s, sub) == IndexOf(s, sub) # 0

\* String.prototype.replace(pattern, '') with a string pattern: removes the
\* first occurrence only
ReplaceFirst(s, pat) ==
    LET i == IndexOf(s, pat)
    IN IF i = 0 THEN s ELSE SubSeq(s, 1, i - 1) \o SubSeq(s, i + Len(pat), Len(s))

\* the regular-expression class \w (which already contains '_')
WordChars ==
    {"a","b","c","d","e","f","g","h","i","j","k","l","m",
     "n","o","p","q","r","s","t","u","v","w","x","y","z",
     "A","B","C","D","E","F","G","H","I","J","K","L","M",
     "N","O","P","Q","R","S","T","U","V","W","X","Y","Z",
     "0","1","2","3","4","5","6","7","8","9","_"}

IsWordChar(s, i) == i >= 1 /\ i <= Len(s) /\ Char(s, i) \in WordChars

\* the regular-expression class \s, as far as the modelled texts use it
IsSpace(s, i) == i >= 1 /\ i <= Len(s) /\ Char(s, i) = " "

\* originalMsg.match(/\[([^\]]+)\]/): the leftmost '[' whose next ']' is at
\* least two characters further; <<>> when there is no match, else <<group 1>>
MethodMatch(s) ==
    LET close(i) == LET js == {j \in (i + 1)..Len(s) : Char(s, j) = "]"}
                    IN IF js = {} THEN 0 ELSE SetMin(js)
        starts == {i \in 1..Len(s) : Char(s, i) = "[" /\ close(i) >= i + 2}
    IN IF starts = {} THEN <<>>
       ELSE LET i == SetMin(starts) IN <<SubSeq(s, i + 1, close(i) - 1)>>

\* originalMsg.match(/([\w_]+)\s*→\s*([\w_]+)/): the leftmost arrow that has
\* a word before it and a word after it, white space apart; <<>> when there
\* is no match, else <<group 1, group 2>> (both groups are greedy)
ArrowMatch(s) ==
    LET before(a) == SetMax({0} \cup {k \in 1..(a - 1) : ~IsSpace(s, k)})
        after(a) == SetMin({Len(s) + 1} \cup {k \in (a + 1)..Len(s) : ~IsSpace(s, k)})
        arrows == {a \in 1..Len(s) :
                      Char(s, a) = "→" /\ IsWordChar(s, before(a)) /\ IsWordChar(s, after(a))}
    IN IF arrows = {} THEN <<>>
       ELSE LET a == SetMin(arrows)
                b == before(a)
                c == after(a)
                start == 1 + SetMax({0} \cup {k \in 1..b : ~IsWordChar(s, k)})
                end == SetMin({Len(s) + 1} \cup {k \in c..Len(s) : ~IsWordChar(s, k)}) - 1
            IN <<SubSeq(s, start, b), SubSeq(s, c, end)>>

\* Array.prototype.slice(-n) for n > 0: the last n elements
SliceLast(seq, n) ==
    IF Len(seq) <= n THEN seq ELSE SubSeq(seq, Len(seq) - n + 1, Len(seq))

\* the letters String.prototype.toLowerCase changes, as far as the modelled
\* texts use them
UpperToLower ==
    [c \in {"A","B","C","D","E","F","G","H","I","J","K","L","M",
            "N","O","P","Q","R","S","T","U","V","W","X","Y","Z"} |->
        CASE c = "A" -> "a" [] c = "B" -> "b" [] c = "C" -> "c" [] c = "D" -> "d"
          [] c = "E" -> "e" [] c = "F" -> "f" [] c = "G" -> "g" [] c = "H" -> "h"
          [] c = "I" -> "i" [] c = "J" -> "j" [] c = "K" -> "k" [] c = "L" -> "l"
          [] c = "M" -> "m" [] c = "N" -> "n" [] c = "O" -> "o" [] c = "P" -> "p"
          [] c = "Q" -> "q" [] c = "R" -> "r" [] c = "S" -> "s" [] c = "T" -> "t"
          [] c = "U" -> "u" [] c = "V" -> "v" [] c = "W" -> "w" [] c = "X" -> "x"
          [] c = "Y" -> "y" [] c = "Z" -> "z"]

\* String.prototype.toLowerCase
RECURSIVE ToLowerCase(_)
ToLowerCase(s) ==
    IF s = "" THEN ""
    ELSE LET c == Char(s, 1)
         IN (IF c \in DOMAIN UpperToLower THEN UpperToLower[c] ELSE c)
                \o ToLowerCase(SubSeq(s, 2, Len(s)))

\* ------------------------------------------------------------------------
\* State
\* ------------------------------------------------------------------------
VARIABLES
    \* AP2Debugger: React state
    isConnected,    \* useState(false)
    logs,           \* useState([]): the raw-log buffer
    messages,       \* useState([]): the message buffer
    \* AP2Debugger: the log-stream effect
    sources,        \* readyState of every EventSource created, in creation order
    eventSource,    \* `let eventSource`: index into sources, 0 for null
    timers,         \* pending setTimeout(connectToLogs, 3000) tasks
    unmounted,      \* the effect's cleanup has run
    \* AP2Debugger: history variables (observers, not read by the handlers)
    logHist,        \* every value handed to setLogs since the last clear
    msgHist,        \* every value handed to setMessages since the last clear
    errorCount,     \* number of onerror events handled
    lastConnEvent,  \* "none", "open" or "error": the last of onopen/onerror
    cleared         \* clearLogs has run

streamVars == <<isConnected, logs, messages, sources, eventSource, timers,
                unmounted, logHist, msgHist, errorCount, lastConnEvent,
                cleared>>

VARIABLES
    \* App: React state
    appSession,            \* sessionData: 0 for null, else the session_id of the data
    appPackage,            \* selectedPackage: 0 for null, else the package_id
    \* TravelPlanner: React state
    plSession,             \* sessionData: 0 for null, else the session_id
    chatHistory,           \* sequence of entry kinds "user", "assistant", "error"
    selectedPackageId,     \* 0 for null
    isLoading,
    message,               \* the text of the input field
    \* CheckoutFlow: React state
    currentStep,
    intentSigned,
    paymentMethods,        \* sequence of tokens
    selectedPaymentToken,  \* "null" or a token
    cartMandate,           \* "null" or the mandate
    cartSigned,
    confirmation,          \* "null" or the confirmation
    isProcessing,
    partialCart,           \* "null" or the cart
    error,                 \* "null", "undefined" or the message
    \* the event loop: asynchronous functions that have not finished, each
    \* suspended at an await of a timer ("delay", "timer") or of a fetch
    calls,
    \* the world outside
    sessionsCreated,       \* session ids handed out by the shopping agent
    chatsSent,             \* chat messages sent
    resetsStarted,         \* handleResetSession invocations
    completions            \* invocations of the onComplete callback

appVars == <<appSession, appPackage>>

plannerVars == <<plSession, chatHistory, selectedPackageId, isLoading, message>>

checkoutVars == <<currentStep, intentSigned, paymentMethods, selectedPaymentToken,
                  cartMandate, cartSigned, confirmation, isProcessing, partialCart, error>>

worldVars == <<sessionsCreated, chatsSent, resetsStarted, completions>>

VARIABLES
    \* MandateViewer: props and React state
    mandate,               \* the mandate prop: a sequence of <<key, number>> members
    editedJson,            \* useState(null): [present |-> FALSE], or the text
    shown,                 \* the header that was rendered: "none", "valid", "invalid"
    mode,                  \* useState('visual'): "visual" or "raw"
    copied,                \* useState(false)
    copyTimers             \* pending setTimeout(() => setCopied(false), 2000) tasks

viewerVars == <<mandate, editedJson, shown, mode, copied, copyTimers>>

seqVars == <<appVars, plannerVars, checkoutVars, calls, worldVars, viewerVars>>

vars == <<streamVars, seqVars>>

\* ------------------------------------------------------------------------
\* Stream events (event.data of the server-sent events)
\* ------------------------------------------------------------------------
\* event.data that is not JSON
Malformed == [type |-> "malformed"]

\* event.data "null"
JsonNull == [type |-> "null"]

\* event.data that is a JSON object; agent "" stands for a missing agent,
\* mtype is the JavaScript type of the message field, extra "undefined" for a
\* missing extra
LogObject(agent, mtype, text, level, extra) ==
    [type |-> "object", timestamp |-> 0, level |-> level, agent |-> agent,
     mtype |-> mtype, message |-> text, extra |-> extra]

SentQuote ==
    LogObject("shipping_agent", "string",
              "A2A SENT: shipping_agent → merchant_agent [quote]", "INFO", "{task:1}")

ReceivedCart ==
    LogObject("shipping_agent", "string",
              "A2A RECEIVED: merchant_agent → shipping_agent [cart]", "INFO", "undefined")

IntentCreated ==
    LogObject("shopping_agent", "string", "Creating IntentMandate for user", "INFO", "undefined")

SentNoArrow == LogObject("", "string", "A2A SENT: ping", "ERROR", "undefined")

NumberMessage == LogObject("merchant_agent", "number", "5", "DEBUG", "undefined")

\* a record that reports the creation of an intent in other words
IntentPlain ==
    LogObject("shopping_agent", "string", "Creating intent for user", "INFO", "undefined")

\* a record of the payment agent that arrives without any record of an intent
PaymentProcessing ==
    LogObject("payment_agent", "string", "Processing payment", "INFO", "undefined")

\* an outbound record whose destination has '_agent' inside its name
SentMidAgent ==
    LogObject("shopping_agent", "string",
              "A2A SENT: shopping_agent → travel_agent_hub [book]", "INFO", "undefined")

\* an inbound record without an arrow pair
ReceivedNoArrow == LogObject("merchant_agent", "string", "A2A RECEIVED: ack", "INFO", "undefined")

StreamData == {Malformed, JsonNull, SentQuote, ReceivedCart, IntentCreated, SentNoArrow,
               NumberMessage, IntentPlain, PaymentProcessing, SentMidAgent, ReceivedNoArrow}

\* the stream events SpecBuf delivers
BufData == {SentQuote, IntentCreated, JsonNull}

\* the producer stamps the n-th record
Stamped(data, n) == IF data.type = "object" THEN [data EXCEPT !.timestamp = n] ELSE data

\* values of Date.now() + Math.random()
Ids == {1, 2}

\* ------------------------------------------------------------------------
\* AP2Debugger: eventSource.onmessage, piece by piece
\* ------------------------------------------------------------------------
\* JSON.parse(event.data) throws a SyntaxError
ParseThrows(data) == data.type = "malformed"

\* log.message || ''
OriginalMsg(log) ==
    IF log.mtype = "string" THEN log.message
    ELSE IF log.mtype = "number" /\ log.message # "0" THEN log.message
    ELSE ""

\* the statements after setLogs throw a TypeError: log.message on null, or
\* toLowerCase on a value that is not a string
ClassifyThrows(log) ==
    \/ log.type = "null"
    \/ log.mtype # "string" /\ OriginalMsg(log) # ""

isA2ASent(log) == Includes(OriginalMsg(log), "A2A SENT:")

\* isA2AReceived that looks for another spelling of the inbound marker
isA2AReceived_WrongMarker(log) == Includes(OriginalMsg(log), "A2A RECV:")

isA2AReceived(log) == Includes(OriginalMsg(log), "A2A RECEIVED:")

\* ProtocolMessage whose fallback branch ignores the record's agent
ProtocolMessage_FallbackNoAgent(log, id) ==
    LET originalMsg == OriginalMsg(log)
        methodMatch == MethodMatch(originalMsg)
        arrowMatch == ArrowMatch(originalMsg)
        sent == isA2ASent(log)
        direction == IF sent THEN "outgoing" ELSE "incoming"
        fromAgent ==
            IF arrowMatch # <<>>
            THEN IF sent
                 THEN (IF log.agent # "" THEN log.agent ELSE arrowMatch[1])
                 ELSE ReplaceFirst(arrowMatch[1], "_agent")
            ELSE "shopping"
        toAgent ==
            IF arrowMatch # <<>>
            THEN IF sent
                 THEN ReplaceFirst(arrowMatch[2], "_agent")
                 ELSE (IF log.agent # "" THEN log.agent ELSE arrowMatch[2])
            ELSE "unknown"
    IN [id |-> id,
        timestamp |-> log.timestamp,
        direction |-> direction,
        method |-> IF methodMatch # <<>> THEN methodMatch[1] ELSE "message",
        from |-> fromAgent,
        to |-> toAgent,
        payload |-> IF log.extra # "undefined" THEN log.extra ELSE "{}",
        status |-> "success",
        rawMessage |-> originalMsg]

\* ProtocolMessage whose status follows the level of the record
ProtocolMessage_StatusFromLevel(log, id) ==
    LET originalMsg == OriginalMsg(log)
        methodMatch == MethodMatch(originalMsg)
        arrowMatch == ArrowMatch(originalMsg)
        sent == isA2ASent(log)
        direction == IF sent THEN "outgoing" ELSE "incoming"
        fromAgent ==
            IF arrowMatch # <<>>
            THEN IF sent
                 THEN (IF log.agent # "" THEN log.agent ELSE arrowMatch[1])
                 ELSE ReplaceFirst(arrowMatch[1], "_agent")
            ELSE (IF log.agent # "" THEN log.agent ELSE "shopping")
        toAgent ==
            IF arrowMatch # <<>>
            THEN IF sent
                 THEN ReplaceFirst(arrowMatch[2], "_agent")
                 ELSE (IF log.agent # "" THEN log.agent ELSE arrowMatch[2])
            ELSE "unknown"
    IN [id |-> id,
        timestamp |-> log.timestamp,
        direction |-> direction,
        method |-> IF methodMatch # <<>> THEN methodMatch[1] ELSE "message",
        from |-> fromAgent,
        to |-> toAgent,
        payload |-> IF log.extra # "undefined" THEN log.extra ELSE "{}",
        status |-> IF log.level = "ERROR" THEN "error" ELSE "success",
        rawMessage |-> originalMsg]

\* the object handed to setMessages (lines 66-112)
ProtocolMessage(log, id) ==
    LET originalMsg == OriginalMsg(log)
        methodMatch == MethodMatch(originalMsg)
        arrowMatch == ArrowMatch(originalMsg)
        sent == isA2ASent(log)
        direction == IF sent THEN "outgoing" ELSE "incoming"
        fromAgent ==
            IF arrowMatch # <<>>
            THEN IF sent
                 THEN (IF log.agent # "" THEN log.agent ELSE arrowMatch[1])
                 ELSE ReplaceFirst(arrowMatch[1], "_agent")
            ELSE (IF log.agent # "" THEN log.agent ELSE "shopping")
        toAgent ==
            IF arrowMatch # <<>>
            THEN IF sent
                 THEN ReplaceFirst(arrowMatch[2], "_agent")
                 ELSE (IF log.agent # "" THEN log.agent ELSE arrowMatch[2])
            ELSE "unknown"
    IN [id |-> id,
        timestamp |-> log.timestamp,
        direction |-> direction,
        method |-> IF methodMatch # <<>> THEN methodMatch[1] ELSE "message",
        from |-> fromAgent,
        to |-> toAgent,
        payload |-> IF log.extra # "undefined" THEN log.extra ELSE "{}",
        status |-> "success",
        rawMessage |-> originalMsg]

\* AppendLog with the slice one entry too long
AppendLog_Slice500(prev, log) == SliceLast(prev, 500) \o <<log>>

\* setLogs((prev) => [...prev.slice(-499), log])
AppendLog(prev, log) == SliceLast(prev, 499) \o <<log>>

\* AppendMessage with a message buffer of 600 entries
AppendMessage_Slice599(prev, m) == SliceLast(prev, 599) \o <<m>>

\* setMessages((prev) => [...prev.slice(-99), message])
AppendMessage(prev, m) == SliceLast(prev, 99) \o <<m>>

\* ------------------------------------------------------------------------
\* AP2Debugger: MandateTimelineView, computed from the logs it is handed
\* ------------------------------------------------------------------------
\* log.message?.toLowerCase() throws a TypeError: log is null, or the message
\* is neither nullish nor a string
LowerThrows(log) == log.type = "null" \/ log.mtype = "number"

\* log.message?.toLowerCase().includes(word); undefined counts as false
LowerIncludes(log, word) ==
    log.mtype = "string" /\ Includes(ToLowerCase(log.message), word)

\* e.message?.includes(word)
MessageIncludes(log, word) == log.mtype = "string" /\ Includes(log.message, word)

\* the callback of logs.filter (lines 354-358)
isRelevant(log) ==
    \/ LowerIncludes(log, "mandate")
    \/ LowerIncludes(log, "a2a")
    \/ LowerIncludes(log, "package")
    \/ LowerIncludes(log, "payment")

\* the render throws: filter reaches an entry whose message cannot be read
TimelineThrows(ls) == \E i \in DOMAIN ls : LowerThrows(ls[i])

relevantEvents(ls) == {i \in DOMAIN ls : isRelevant(ls[i])}

\* the callbacks of relevantEvents.some (lines 362-378)
intentRule(e) ==
    \/ MessageIncludes(e, "IntentMandate")
    \/ LowerIncludes(e, "intent") /\ LowerIncludes(e, "creat")

packagesRule(e) ==
    LowerIncludes(e, "package") /\ (LowerIncludes(e, "generat") \/ LowerIncludes(e, "found"))

cartMandateRule(e) ==
    \/ MessageIncludes(e, "CartMandate")
    \/ LowerIncludes(e, "cart") /\ LowerIncludes(e, "mandate")

paymentRule(e) ==
    \/ MessageIncludes(e, "PaymentMandate")
    \/ LowerIncludes(e, "payment") /\ LowerIncludes(e, "process")

hasIntent(ls) == \E i \in relevantEvents(ls) : intentRule(ls[i])

hasPackages(ls) == \E i \in relevantEvents(ls) : packagesRule(ls[i])

hasCartMandate(ls) == \E i \in relevantEvents(ls) : cartMandateRule(ls[i])

hasPayment(ls) == \E i \in relevantEvents(ls) : paymentRule(ls[i])

StepStatus(done) == IF done THEN "completed" ELSE "pending"

\* MandateTimelineView whose 'Intent Signed' entry follows hasCartMandate
MandateTimelineView_SignedFromCart(ls) ==
    IF TimelineThrows(ls) THEN [threw |-> TRUE, status |-> <<>>]
    ELSE [threw |-> FALSE,
          status |-> <<StepStatus(hasIntent(ls)), StepStatus(hasCartMandate(ls)),
                       StepStatus(hasPackages(ls)), StepStatus(hasCartMandate(ls)),
                       StepStatus(hasPayment(ls))>>]

\* the status of the five entries of `events` (lines 380-410); the render has
\* no result when it throws
MandateTimelineView(ls) ==
    IF TimelineThrows(ls) THEN [threw |-> TRUE, status |-> <<>>]
    ELSE [threw |-> FALSE,
          status |-> <<StepStatus(hasIntent(ls)), StepStatus(hasIntent(ls)),
                       StepStatus(hasPackages(ls)), StepStatus(hasCartMandate(ls)),
                       StepStatus(hasPayment(ls))>>]

\* ------------------------------------------------------------------------
\* AP2Debugger: initial state (after the mount effect has run)
\* ------------------------------------------------------------------------
InitStream ==
    /\ isConnected = FALSE
    /\ logs = <<>>
    /\ messages = <<>>
    /\ sources = <<"connecting">>
    /\ eventSource = 1
    /\ timers = 0
    /\ unmounted = FALSE
    /\ logHist = <<>>
    /\ msgHist = <<>>
    /\ errorCount = 0
    /\ lastConnEvent = "none"
    /\ cleared = FALSE

\* sources on which the browser can still fire an event
Live(i) == i \in DOMAIN sources /\ sources[i] # "closed"

\* EventSource.close() on `eventSource`
Closed(srcs, es) == IF es = 0 THEN srcs ELSE [srcs EXCEPT ![es] = "closed"]

\* ------------------------------------------------------------------------
\* AP2Debugger: actions
\* ------------------------------------------------------------------------
\* onopen that forgets setIsConnected(true)
onopen_NoFlag(i) ==
    /\ i \in DOMAIN sources
    /\ sources[i] = "connecting"
    /\ sources' = [sources EXCEPT ![i] = "open"]
    /\ lastConnEvent' = "open"
    /\ UNCHANGED cleared
    /\ UNCHANGED <<isConnected, logs, messages, eventSource, timers, unmounted, logHist,
                   msgHist, errorCount>>
    /\ UNCHANGED seqVars

\* eventSource.onopen of source i
onopen(i) ==
    /\ i \in DOMAIN sources
    /\ sources[i] = "connecting"
    /\ sources' = [sources EXCEPT ![i] = "open"]
    /\ isConnected' = TRUE
    /\ lastConnEvent' = "open"
    /\ UNCHANGED cleared
    /\ UNCHANGED <<logs, messages, eventSource, timers, unmounted, logHist, msgHist,
                   errorCount>>
    /\ UNCHANGED seqVars

\* eventSource.onmessage of source i with event.data = data; id is the value
\* of Date.now() + Math.random()
onmessage(i, data, id) ==
    /\ i \in DOMAIN sources
    /\ sources[i] = "open"
    /\ IF ParseThrows(data)
       THEN UNCHANGED <<logs, logHist, messages, msgHist>>
       ELSE /\ logs' = AppendLog(logs, data)
            /\ logHist' = Append(logHist, data)
            /\ IF ~ClassifyThrows(data) /\ (isA2ASent(data) \/ isA2AReceived(data))
               THEN /\ messages' = AppendMessage(messages, ProtocolMessage(data, id))
                    /\ msgHist' = Append(msgHist, ProtocolMessage(data, id))
               ELSE UNCHANGED <<messages, msgHist>>
    /\ UNCHANGED <<isConnected, sources, eventSource, timers, unmounted, errorCount,
                   lastConnEvent,
                   cleared>>
    /\ UNCHANGED seqVars

\* onerror that schedules the reconnection twice
onerror_TwoTimers(i) ==
    /\ Live(i)
    /\ isConnected' = FALSE
    /\ sources' = Closed(sources, eventSource)
    /\ timers' = timers + 2
    /\ errorCount' = errorCount + 1
    /\ lastConnEvent' = "error"
    /\ UNCHANGED cleared
    /\ UNCHANGED <<logs, messages, eventSource, unmounted, logHist, msgHist>>
    /\ UNCHANGED seqVars

\* onerror that forgets eventSource.close()
onerror_NoClose(i) ==
    /\ Live(i)
    /\ isConnected' = FALSE
    /\ timers' = timers + 1
    /\ errorCount' = errorCount + 1
    /\ lastConnEvent' = "error"
    /\ UNCHANGED cleared
    /\ UNCHANGED <<sources, logs, messages, eventSource, unmounted, logHist, msgHist>>
    /\ UNCHANGED seqVars

\* eventSource.onerror of source i: the handler closes whatever `eventSource`
\* refers to and schedules connectToLogs
onerror(i) ==
    /\ Live(i)
    /\ isConnected' = FALSE
    /\ sources' = Closed(sources, eventSource)
    /\ timers' = timers + 1
    /\ errorCount' = errorCount + 1
    /\ lastConnEvent' = "error"
    /\ UNCHANGED cleared
    /\ UNCHANGED <<logs, messages, eventSource, unmounted, logHist, msgHist>>
    /\ UNCHANGED seqVars

\* connectToLogs that gives up after two reconnections
connectToLogs_RetryLimit ==
    /\ timers > 0
    /\ Len(sources) < 3
    /\ timers' = timers - 1
    /\ sources' = Append(sources, "connecting")
    /\ eventSource' = Len(sources) + 1
    /\ UNCHANGED <<isConnected, logs, messages, unmounted, logHist, msgHist, errorCount,
                   lastConnEvent,
                   cleared>>
    /\ UNCHANGED seqVars

\* a setTimeout(connectToLogs, 3000) task runs: connectToLogs
connectToLogs ==
    /\ timers > 0
    /\ timers' = timers - 1
    /\ sources' = Append(sources, "connecting")
    /\ eventSource' = Len(sources) + 1
    /\ UNCHANGED <<isConnected, logs, messages, unmounted, logHist, msgHist, errorCount,
                   lastConnEvent,
                   cleared>>
    /\ UNCHANGED seqVars

\* the cleanup returned by the effect (component unmount)
cleanup ==
    /\ ~unmounted
    /\ unmounted' = TRUE
    /\ sources' = Closed(sources, eventSource)
    /\ UNCHANGED <<isConnected, logs, messages, eventSource, timers, logHist, msgHist,
                   errorCount, lastConnEvent,
                   cleared>>
    /\ UNCHANGED seqVars

\* clearLogs without its setMessages([])
clearLogs_LogsOnly ==
    /\ ~unmounted
    /\ logs' = <<>>
    /\ logHist' = <<>>
    /\ cleared' = TRUE
    /\ UNCHANGED <<messages, msgHist>>
    /\ UNCHANGED <<isConnected, sources, eventSource, timers, unmounted, errorCount,
                   lastConnEvent>>
    /\ UNCHANGED seqVars

\* clearLogs (the Clear button of the mounted component)
clearLogs ==
    /\ ~unmounted
    /\ logs' = <<>>
    /\ messages' = <<>>
    /\ logHist' = <<>>
    /\ msgHist' = <<>>
    /\ UNCHANGED <<isConnected, sources, eventSource, timers, unmounted, errorCount,
                   lastConnEvent>>
    /\ cleared' = TRUE
    /\ UNCHANGED seqVars

\* ------------------------------------------------------------------------
\* Checkout sequencer: values and helpers
\* ------------------------------------------------------------------------
\* package_id of the packages the shopping agent offers
Packages == {"pkg_1"}

\* data.payment_methods of a successful listPaymentMethods response
ServerMethods == <<"tok_server_1">>

\* the mock list fetchPaymentMethods falls back to
FallbackMethods == <<"tok_visa_4242", "tok_mc_5555", "tok_amex_1111">>

\* outcomes of a backend call: success:true, success:false with an error
\* field, success:false without one, and a rejected fetch or response.json()
Outcomes == {"ok", "fail_error", "fail_noerror", "throw"}

\* data.error of a success:false response that carries an error field
ServerError == "Cart validation failed"

Range(f) == {f[i] : i \in DOMAIN f}

RemoveAt(seq, k) == SubSeq(seq, 1, k - 1) \o SubSeq(seq, k + 1, Len(seq))

\* an asynchronous function suspended at an await; session and arg are the
\* values its closure captured
Call(op, phase, session, arg) == [op |-> op, phase |-> phase, session |-> session, arg |-> arg]

Suspended(k, op, phase) ==
    k \in DOMAIN calls /\ calls[k].op = op /\ calls[k].phase = phase

\* CheckoutFlow renders its steps (lines 161-173 return early otherwise)
Rendered == appSession # 0 /\ appPackage # "null"

\* the effect of lines 42-46, run after a render in which currentStep or
\* sessionData changed: fetchPaymentMethods starts and awaits its fetch
PaymentMethodsEffect(cs, depsChanged, step, session) ==
    IF depsChanged /\ step = 3 /\ session # 0
    THEN Append(cs, Call("fetchPaymentMethods", "fetch", session, ""))
    ELSE cs

InitSeq ==
    /\ appSession = 0
    /\ appPackage = "null"
    /\ plSession = 0
    /\ chatHistory = <<>>
    /\ selectedPackageId = "null"
    /\ isLoading = FALSE
    /\ message = ""
    /\ currentStep = 1
    /\ intentSigned = FALSE
    /\ paymentMethods = <<>>
    /\ selectedPaymentToken = "null"
    /\ cartMandate = "null"
    /\ cartSigned = FALSE
    /\ confirmation = "null"
    /\ isProcessing = FALSE
    /\ partialCart = "null"
    /\ error = "null"
    /\ calls = <<>>
    /\ sessionsCreated = 0
    /\ chatsSent = 0
    /\ resetsStarted = 0
    /\ completions = 0

\* ------------------------------------------------------------------------
\* TravelPlanner: actions
\* ------------------------------------------------------------------------
\* the input's onChange, or sendSuggestion: setMessage(text)
typeMessage ==
    /\ message = ""
    /\ message' = "plan a trip"
    /\ UNCHANGED <<plSession, chatHistory, selectedPackageId, isLoading>>
    /\ UNCHANGED <<appVars, checkoutVars, calls, worldVars, streamVars, viewerVars>>

\* handlePackageSelect(pkg) on a package card of an assistant entry; its timer
\* submits the form, which is handleSendMessage
handlePackageSelect(pkg) ==
    /\ "assistant" \in Range(chatHistory)
    /\ message' = "I want the package"
    /\ selectedPackageId' = pkg
    /\ UNCHANGED <<plSession, chatHistory, isLoading>>
    /\ UNCHANGED <<appVars, checkoutVars, calls, worldVars, streamVars, viewerVars>>

\* handleSendMessage up to its await of fetch('/api/chat')
handleSendMessage ==
    /\ message # ""
    /\ ~isLoading
    /\ message' = ""
    /\ isLoading' = TRUE
    /\ chatHistory' = Append(chatHistory, "user")
    /\ calls' = Append(calls, Call("chat", "fetch", plSession, ""))
    /\ chatsSent' = chatsSent + 1
    /\ UNCHANGED <<plSession, selectedPackageId>>
    /\ UNCHANGED <<appVars, checkoutVars, sessionsCreated, resetsStarted, completions,
                   streamVars, viewerVars>>

\* handleSendMessage from the response on; pkg is data.selected_package.  The
\* shopping agent answers in the session the request named, or in a new one
chatResponse(k, outcome, pkg) ==
    /\ Suspended(k, "chat", "fetch")
    /\ IF outcome = "ok"
       THEN LET sid == IF calls[k].session # 0 THEN calls[k].session
                       ELSE sessionsCreated + 1
            IN /\ sessionsCreated' = IF calls[k].session # 0 THEN sessionsCreated
                                     ELSE sessionsCreated + 1
               /\ plSession' = sid
               /\ appSession' = sid
               /\ appPackage' = IF pkg # "null" THEN pkg ELSE appPackage
               /\ chatHistory' = Append(chatHistory, "assistant")
               /\ calls' = PaymentMethodsEffect(RemoveAt(calls, k), TRUE, currentStep, sid)
       ELSE /\ chatHistory' = Append(chatHistory, "error")
            /\ calls' = RemoveAt(calls, k)
            /\ UNCHANGED <<sessionsCreated, plSession, appSession, appPackage>>
    /\ isLoading' = FALSE
    /\ UNCHANGED <<selectedPackageId, message>>
    /\ UNCHANGED <<checkoutVars, chatsSent, resetsStarted, completions, streamVars, viewerVars>>

\* handleResetSession up to its await of fetch('/api/reset-session')
handleResetSession ==
    /\ plSession # 0
    /\ calls' = Append(calls, Call("reset", "fetch", plSession, ""))
    /\ resetsStarted' = resetsStarted + 1
    /\ UNCHANGED <<appVars, plannerVars, checkoutVars, sessionsCreated, chatsSent,
                   completions, streamVars, viewerVars>>

\* handleResetSession after the fetch settled, fulfilled or rejected
resetSettled(k) ==
    /\ Suspended(k, "reset", "fetch")
    /\ chatHistory' = <<>>
    /\ plSession' = 0
    /\ selectedPackageId' = "null"
    /\ message' = ""
    /\ appSession' = 0
    /\ appPackage' = "null"
    /\ calls' = PaymentMethodsEffect(RemoveAt(calls, k), appSession # 0, currentStep, 0)
    /\ UNCHANGED <<isLoading, checkoutVars, worldVars, streamVars, viewerVars>>

\* ------------------------------------------------------------------------
\* CheckoutFlow: actions
\* ------------------------------------------------------------------------
\* fetchPaymentMethods from the response on
paymentMethodsResponse(k, outcome) ==
    /\ Suspended(k, "fetchPaymentMethods", "fetch")
    /\ paymentMethods' = CASE outcome = "ok" -> ServerMethods
                           [] outcome = "throw" -> FallbackMethods
                           [] OTHER -> paymentMethods
    /\ calls' = RemoveAt(calls, k)
    /\ UNCHANGED <<currentStep, intentSigned, selectedPaymentToken, cartMandate, cartSigned,
                   confirmation, isProcessing, partialCart, error>>
    /\ UNCHANGED <<appVars, plannerVars, worldVars, streamVars, viewerVars>>

\* handleSignIntent with a Sign button that stays shown once the intent is signed
handleSignIntent_AlwaysShown ==
    /\ Rendered
    /\ currentStep = 1
    /\ ~isProcessing
    /\ isProcessing' = TRUE
    /\ calls' = Append(calls, Call("handleSignIntent", "delay", appSession, appPackage))
    /\ UNCHANGED <<currentStep, intentSigned, paymentMethods, selectedPaymentToken,
                   cartMandate, cartSigned, confirmation, partialCart, error>>
    /\ UNCHANGED <<appVars, plannerVars, worldVars, streamVars, viewerVars>>

\* handleSignIntent up to its await of the 1500 ms timer (the Sign button of
\* IntentCaptureStep, shown while the intent is unsigned)
handleSignIntent ==
    /\ Rendered
    /\ currentStep = 1
    /\ ~intentSigned
    /\ ~isProcessing
    /\ isProcessing' = TRUE
    /\ calls' = Append(calls, Call("handleSignIntent", "delay", appSession, appPackage))
    /\ UNCHANGED <<currentStep, intentSigned, paymentMethods, selectedPaymentToken,
                   cartMandate, cartSigned, confirmation, partialCart, error>>
    /\ UNCHANGED <<appVars, plannerVars, worldVars, streamVars, viewerVars>>

\* handleSignIntent from the timer to the await of fetch('/api/select-package'),
\* or to the 500 ms timer when the fetch is skipped
signIntentDelayed(k) ==
    /\ Suspended(k, "handleSignIntent", "delay")
    /\ intentSigned' = TRUE
    /\ isProcessing' = FALSE
    /\ calls' = [calls EXCEPT ![k].phase =
                    IF calls[k].session # 0 /\ calls[k].arg # "null" THEN "fetch" ELSE "timer"]
    /\ UNCHANGED <<currentStep, paymentMethods, selectedPaymentToken, cartMandate,
                   cartSigned, confirmation, partialCart, error>>
    /\ UNCHANGED <<appVars, plannerVars, worldVars, streamVars, viewerVars>>

\* selectPackageResponse that returns early when the call did not succeed
selectPackageResponse_StopsOnFailure(k, outcome) ==
    /\ Suspended(k, "handleSignIntent", "fetch")
    /\ partialCart' = IF outcome = "ok" THEN "partial_cart" ELSE partialCart
    /\ calls' = IF outcome = "ok" THEN [calls EXCEPT ![k].phase = "timer"]
                ELSE RemoveAt(calls, k)
    /\ UNCHANGED <<currentStep, intentSigned, paymentMethods, selectedPaymentToken,
                   cartMandate, cartSigned, confirmation, isProcessing, error>>
    /\ UNCHANGED <<appVars, plannerVars, worldVars, streamVars, viewerVars>>

\* handleSignIntent from the select-package response to setTimeout(..., 500)
selectPackageResponse(k, outcome) ==
    /\ Suspended(k, "handleSignIntent", "fetch")
    /\ partialCart' = IF outcome = "ok" THEN "partial_cart" ELSE partialCart
    /\ calls' = [calls EXCEPT ![k].phase = "timer"]
    /\ UNCHANGED <<currentStep, intentSigned, paymentMethods, selectedPaymentToken,
                   cartMandate, cartSigned, confirmation, isProcessing, error>>
    /\ UNCHANGED <<appVars, plannerVars, worldVars, streamVars, viewerVars>>

\* the timer task of handleSignIntent: setCurrentStep(2)
signIntentTimer(k) ==
    /\ Suspended(k, "handleSignIntent", "timer")
    /\ currentStep' = 2
    /\ calls' = PaymentMethodsEffect(RemoveAt(calls, k), currentStep # 2, 2, appSession)
    /\ UNCHANGED <<intentSigned, paymentMethods, selectedPaymentToken, cartMandate,
                   cartSigned, confirmation, isProcessing, partialCart, error>>
    /\ UNCHANGED <<appVars, plannerVars, worldVars, streamVars, viewerVars>>

\* onContinue without the effect that runs on entering stage 3
onContinue_NoFetch ==
    /\ Rendered
    /\ currentStep = 2
    /\ currentStep' = 3
    /\ UNCHANGED calls
    /\ UNCHANGED <<intentSigned, paymentMethods, selectedPaymentToken, cartMandate,
                   cartSigned, confirmation, isProcessing, partialCart, error>>
    /\ UNCHANGED <<appVars, plannerVars, worldVars, streamVars, viewerVars>>

\* onContinue of MerchantCartStep: setCurrentStep(3)
onContinue ==
    /\ Rendered
    /\ currentStep = 2
    /\ currentStep' = 3
    /\ calls' = PaymentMethodsEffect(calls, TRUE, 3, appSession)
    /\ UNCHANGED <<intentSigned, paymentMethods, selectedPaymentToken, cartMandate,
                   cartSigned, confirmation, isProcessing, partialCart, error>>
    /\ UNCHANGED <<appVars, plannerVars, worldVars, streamVars, viewerVars>>

\* handleSelectPayment with buttons that stay enabled while isProcessing
handleSelectPayment_NoDisable(token) ==
    /\ Rendered
    /\ currentStep = 3
    /\ token \in Range(paymentMethods)
    /\ selectedPaymentToken' = token
    /\ isProcessing' = TRUE
    /\ calls' = Append(calls, Call("handleSelectPayment", "fetch", appSession, token))
    /\ UNCHANGED <<currentStep, intentSigned, paymentMethods, cartMandate, cartSigned,
                   confirmation, partialCart, error>>
    /\ UNCHANGED <<appVars, plannerVars, worldVars, streamVars, viewerVars>>

\* handleSelectPayment(token) up to its await of fetch('/api/create-cart-mandate')
\* (a button of PaymentMethodStep, disabled while isProcessing)
handleSelectPayment(token) ==
    /\ Rendered
    /\ currentStep = 3
    /\ ~isProcessing
    /\ token \in Range(paymentMethods)
    /\ selectedPaymentToken' = token
    /\ isProcessing' = TRUE
    /\ calls' = Append(calls, Call("handleSelectPayment", "fetch", appSession, token))
    /\ UNCHANGED <<currentStep, intentSigned, paymentMethods, cartMandate, cartSigned,
                   confirmation, partialCart, error>>
    /\ UNCHANGED <<appVars, plannerVars, worldVars, streamVars, viewerVars>>

\* handleSelectPayment from the response on
createCartMandateResponse(k, outcome) ==
    /\ Suspended(k, "handleSelectPayment", "fetch")
    /\ CASE outcome = "ok" ->
              /\ cartMandate' = "cart_mandate"
              /\ currentStep' = 4
              /\ UNCHANGED error
         [] outcome = "fail_error" ->
              /\ error' = ServerError
              /\ UNCHANGED <<cartMandate, currentStep>>
         [] outcome = "fail_noerror" ->
              /\ error' = "undefined"
              /\ UNCHANGED <<cartMandate, currentStep>>
         [] OTHER ->
              /\ error' = "Failed to create cart mandate"
              /\ UNCHANGED <<cartMandate, currentStep>>
    /\ isProcessing' = FALSE
    /\ calls' = RemoveAt(calls, k)
    /\ UNCHANGED <<intentSigned, paymentMethods, selectedPaymentToken, cartSigned,
                   confirmation, partialCart>>
    /\ UNCHANGED <<appVars, plannerVars, worldVars, streamVars, viewerVars>>

\* handleSignCart with a Sign button that is reachable from every stage
handleSignCart_AnyStep ==
    /\ Rendered
    /\ ~cartSigned
    /\ ~isProcessing
    /\ isProcessing' = TRUE
    /\ calls' = Append(calls, Call("handleSignCart", "delay", appSession, ""))
    /\ UNCHANGED <<currentStep, intentSigned, paymentMethods, selectedPaymentToken,
                   cartMandate, cartSigned, confirmation, partialCart, error>>
    /\ UNCHANGED <<appVars, plannerVars, worldVars, streamVars, viewerVars>>

\* handleSignCart up to its await of the 2000 ms timer (the Sign button of
\* CartMandateStep, shown while the cart is unsigned)
handleSignCart ==
    /\ Rendered
    /\ currentStep = 4
    /\ ~cartSigned
    /\ ~isProcessing
    /\ isProcessing' = TRUE
    /\ calls' = Append(calls, Call("handleSignCart", "delay", appSession, ""))
    /\ UNCHANGED <<currentStep, intentSigned, paymentMethods, selectedPaymentToken,
                   cartMandate, cartSigned, confirmation, partialCart, error>>
    /\ UNCHANGED <<appVars, plannerVars, worldVars, streamVars, viewerVars>>

\* handleSignCart from the timer to setTimeout(() => processPayment(), 500)
signCartDelayed(k) ==
    /\ Suspended(k, "handleSignCart", "delay")
    /\ cartSigned' = TRUE
    /\ isProcessing' = FALSE
    /\ calls' = [calls EXCEPT ![k].phase = "timer"]
    /\ UNCHANGED <<currentStep, intentSigned, paymentMethods, selectedPaymentToken,
                   cartMandate, confirmation, partialCart, error>>
    /\ UNCHANGED <<appVars, plannerVars, worldVars, streamVars, viewerVars>>

\* the timer task of handleSignCart: processPayment up to its await of
\* fetch('/api/process-payment')
processPayment(k) ==
    /\ Suspended(k, "handleSignCart", "timer")
    /\ currentStep' = 5
    /\ isProcessing' = TRUE
    /\ calls' = [calls EXCEPT ![k] = Call("processPayment", "fetch", calls[k].session, "")]
    /\ UNCHANGED <<intentSigned, paymentMethods, selectedPaymentToken, cartMandate,
                   cartSigned, confirmation, partialCart, error>>
    /\ UNCHANGED <<appVars, plannerVars, worldVars, streamVars, viewerVars>>

\* processPaymentResponse that stores the confirmation without calling onComplete
processPaymentResponse_NoCallback(k, outcome) ==
    /\ Suspended(k, "processPayment", "fetch")
    /\ CASE outcome = "ok" ->
              /\ confirmation' = "confirmation"
              /\ UNCHANGED completions
              /\ UNCHANGED error
         [] outcome = "fail_error" ->
              /\ error' = ServerError
              /\ UNCHANGED <<confirmation, completions>>
         [] outcome = "fail_noerror" ->
              /\ error' = "undefined"
              /\ UNCHANGED <<confirmation, completions>>
         [] OTHER ->
              /\ error' = "Payment processing failed"
              /\ UNCHANGED <<confirmation, completions>>
    /\ isProcessing' = FALSE
    /\ calls' = RemoveAt(calls, k)
    /\ UNCHANGED <<currentStep, intentSigned, paymentMethods, selectedPaymentToken,
                   cartMandate, cartSigned, partialCart>>
    /\ UNCHANGED <<appVars, plannerVars, sessionsCreated, chatsSent, resetsStarted,
                   streamVars, viewerVars>>

\* processPayment from the response on
processPaymentResponse(k, outcome) ==
    /\ Suspended(k, "processPayment", "fetch")
    /\ CASE outcome = "ok" ->
              /\ confirmation' = "confirmation"
              /\ completions' = completions + 1
              /\ UNCHANGED error
         [] outcome = "fail_error" ->
              /\ error' = ServerError
              /\ UNCHANGED <<confirmation, completions>>
         [] outcome = "fail_noerror" ->
              /\ error' = "undefined"
              /\ UNCHANGED <<confirmation, completions>>
         [] OTHER ->
              /\ error' = "Payment processing failed"
              /\ UNCHANGED <<confirmation, completions>>
    /\ isProcessing' = FALSE
    /\ calls' = RemoveAt(calls, k)
    /\ UNCHANGED <<currentStep, intentSigned, paymentMethods, selectedPaymentToken,
                   cartMandate, cartSigned, partialCart>>
    /\ UNCHANGED <<appVars, plannerVars, sessionsCreated, chatsSent, resetsStarted,
                   streamVars, viewerVars>>

\* ------------------------------------------------------------------------
\* MandateViewer
\* ------------------------------------------------------------------------
\* the mandates handed to the viewer: objects with number members
Mandates ==
    {<<>>, <<<<"a", "1">>>>, <<<<"a", "2">>>>, <<<<"b", "2">>>>, <<<<"a", "1">>, <<"b", "2">>>>}

\* the members of JSON.stringify(value, null, 2) from member k on, each on a
\* line of its own, indented by two spaces
RECURSIVE MemberLines(_, _)
MemberLines(m, k) ==
    IF k > Len(m) THEN ""
    ELSE "\n  \"" \o m[k][1] \o "\": " \o m[k][2]
            \o (IF k < Len(m) THEN "," ELSE "") \o MemberLines(m, k + 1)

\* JSON.stringify(mandate, null, 2)
jsonString(m) == IF m = <<>> THEN "{}" ELSE "{" \o MemberLines(m, 1) \o "\n}"

\* the members of JSON.stringify(value) from member k on
RECURSIVE MemberList(_, _)
MemberList(m, k) ==
    IF k > Len(m) THEN ""
    ELSE "\"" \o m[k][1] \o "\":" \o m[k][2]
            \o (IF k < Len(m) THEN "," ELSE "") \o MemberList(m, k + 1)

\* JSON.stringify(mandate): the serialization without white space
CompactJson(m) == "{" \o MemberList(m, 1) \o "}"

\* editedJson: null
NoEdit == [present |-> FALSE]

\* editedJson: a text
Edited(text) == [present |-> TRUE, text |-> text]

\* the texts an edit may leave: a serialization of some mandate as the viewer
\* prints it, without white space, or with a blank appended
EditedTexts ==
    UNION {{jsonString(m), CompactJson(m), jsonString(m) \o " "} : m \in Mandates}

\* isModified with a comparison that ignores white space
isModified_IgnoresWhiteSpace(edited, canonical) ==
    LET Squeeze(t) == SelectSeq(t, LAMBDA c : c \notin {" ", "\n"})
    IN edited.present /\ Squeeze(edited.text) # Squeeze(canonical)

\* editedJson !== null && editedJson !== jsonString
isModified(edited, canonical) == edited.present /\ edited.text # canonical

InitViewer ==
    /\ mandate = <<>>
    /\ editedJson = NoEdit
    /\ shown = "none"
    /\ mode = "visual"
    /\ copied = FALSE
    /\ copyTimers = 0

\* the viewer with a mandate and an edit state chosen freely
InitViewerAny ==
    /\ mandate \in Mandates
    /\ editedJson \in {NoEdit} \cup {Edited(t) : t \in EditedTexts}
    /\ shown = "none"
    /\ mode = "visual"
    /\ copied = FALSE
    /\ copyTimers = 0

\* the render of lines 9-46: the header shows the verdict
renderViewer ==
    /\ shown' = IF isModified(editedJson, jsonString(mandate)) THEN "invalid" ELSE "valid"
    /\ UNCHANGED <<mandate, editedJson, mode, copied, copyTimers>>
    /\ UNCHANGED <<appVars, plannerVars, checkoutVars, calls, worldVars, streamVars>>

\* newMandate of a viewer whose raw text is an editor that keeps the text
\* of the mandate it showed
newMandate_KeepsText(m) ==
    /\ m # mandate
    /\ mandate' = m
    /\ shown' = "none"
    /\ editedJson' = Edited(jsonString(mandate))
    /\ UNCHANGED <<mode, copied, copyTimers>>
    /\ UNCHANGED <<appVars, plannerVars, checkoutVars, calls, worldVars, streamVars>>

\* the parent renders the viewer with another mandate
newMandate(m) ==
    /\ m # mandate
    /\ mandate' = m
    /\ shown' = "none"
    /\ UNCHANGED <<editedJson, mode, copied, copyTimers>>
    /\ UNCHANGED <<appVars, plannerVars, checkoutVars, calls, worldVars, streamVars>>

\* the Visual and Raw JSON buttons: setMode(m)
setMode(m) ==
    /\ mode' = m
    /\ UNCHANGED <<mandate, editedJson, shown, copied, copyTimers>>
    /\ UNCHANGED <<appVars, plannerVars, checkoutVars, calls, worldVars, streamVars>>

\* handleCopy once the clipboard write is fulfilled: setCopied(true) and a
\* timer of 2000 ms (a rejected write changes no state)
handleCopy ==
    /\ copied' = TRUE
    /\ copyTimers' = copyTimers + 1
    /\ UNCHANGED <<mandate, editedJson, shown, mode>>
    /\ UNCHANGED <<appVars, plannerVars, checkoutVars, calls, worldVars, streamVars>>

\* a timer task of handleCopy: setCopied(false)
copiedTimer ==
    /\ copyTimers > 0
    /\ copied' = FALSE
    /\ copyTimers' = copyTimers - 1
    /\ UNCHANGED <<mandate, editedJson, shown, mode>>
    /\ UNCHANGED <<appVars, plannerVars, checkoutVars, calls, worldVars, streamVars>>

\* ------------------------------------------------------------------------
\* Specifications
\* ------------------------------------------------------------------------
Init == InitStream /\ InitSeq /\ InitViewer

NewMandate == \E m \in Mandates : newMandate(m)

\* the user switches between the visual and the raw view
SetMode == \E m \in {"visual", "raw"} : m # mode /\ setMode(m)

\* the user presses Copy (at most MaxCopies timers pending)
Copy == copyTimers < MaxCopies /\ handleCopy

NextViewer ==
    \/ renderViewer
    \/ NewMandate
    \/ SetMode
    \/ Copy
    \/ copiedTimer

\* the viewer alone, from every mandate and edit state
InitAnyViewer == InitStream /\ InitSeq /\ InitViewerAny

SpecViewer == InitAnyViewer /\ [][NextViewer]_vars

\* the viewer as the application uses it, from its initial state
SpecViewerApp == Init /\ [][NextViewer]_vars

\* the stream delivers one more event
Deliver ==
    \E i \in DOMAIN sources, data \in StreamData, id \in Ids :
        /\ Len(logHist) < MaxRecords
        /\ onmessage(i, Stamped(data, Len(logHist) + 1), id)

Open == \E i \in DOMAIN sources : onopen(i)

\* the browser reports a connection error (at most MaxErrors of them)
Error == \E i \in DOMAIN sources : errorCount < MaxErrors /\ onerror(i)

Next ==
    \/ Open
    \/ Deliver
    \/ Error
    \/ connectToLogs
    \/ cleanup
    \/ clearLogs

\* the debugger under every interleaving of its events
Spec == Init /\ [][Next]_vars

NextLive ==
    \/ Open
    \/ Deliver
    \/ Error
    \/ connectToLogs
    \/ clearLogs

\* the debugger while it stays mounted; a timer task that is due is run by
\* the event loop
SpecLive == Init /\ [][NextLive]_vars /\ WF_vars(connectToLogs)

\* the user sends a chat message (at most MaxChats of them)
SendMessage == chatsSent < MaxChats /\ handleSendMessage

PackageSelect == \E pkg \in Packages : handlePackageSelect(pkg)

ChatResponse ==
    \E k \in DOMAIN calls, outcome \in {"ok", "fail_error", "throw"},
       pkg \in Packages \cup {"null"} :
        chatResponse(k, outcome, pkg)

\* the user presses Reset Session (at most MaxResets times)
ResetSession == resetsStarted < MaxResets /\ handleResetSession

ResetSettled == \E k \in DOMAIN calls : resetSettled(k)

PaymentMethodsResponse ==
    \E k \in DOMAIN calls, outcome \in {"ok", "fail_error", "throw"} :
        paymentMethodsResponse(k, outcome)

SignIntentDelayed == \E k \in DOMAIN calls : signIntentDelayed(k)

SelectPackageResponse ==
    \E k \in DOMAIN calls, outcome \in {"ok", "fail_error", "throw"} :
        selectPackageResponse(k, outcome)

SignIntentTimer == \E k \in DOMAIN calls : signIntentTimer(k)

SelectPayment == \E token \in Range(paymentMethods) : handleSelectPayment(token)

CreateCartMandateResponse ==
    \E k \in DOMAIN calls, outcome \in Outcomes : createCartMandateResponse(k, outcome)

SignCartDelayed == \E k \in DOMAIN calls : signCartDelayed(k)

ProcessPayment == \E k \in DOMAIN calls : processPayment(k)

ProcessPaymentResponse ==
    \E k \in DOMAIN calls, outcome \in Outcomes : processPaymentResponse(k, outcome)

NextSeq ==
    \/ typeMessage
    \/ PackageSelect
    \/ SendMessage
    \/ ChatResponse
    \/ ResetSession
    \/ ResetSettled
    \/ PaymentMethodsResponse
    \/ handleSignIntent
    \/ SignIntentDelayed
    \/ SelectPackageResponse
    \/ SignIntentTimer
    \/ onContinue
    \/ SelectPayment
    \/ CreateCartMandateResponse
    \/ handleSignCart
    \/ SignCartDelayed
    \/ ProcessPayment
    \/ ProcessPaymentResponse

\* the planner, the application shell and the checkout sequencer under every
\* interleaving of user actions, timers and responses
SpecSeq == Init /\ [][NextSeq]_vars

\* SpecSeq with an event loop that runs the tasks of handleSignIntent: its
\* timers fire and its fetch settles
SpecSeqLive ==
    /\ Init
    /\ [][NextSeq]_vars
    /\ WF_vars(SignIntentDelayed)
    /\ WF_vars(SelectPackageResponse)
    /\ WF_vars(SignIntentTimer)

\* the raw-log buffer of one connection under deliveries and clears: the
\* input of the timeline view
NextTimeline == Open \/ Deliver \/ clearLogs

SpecTimeline == Init /\ [][NextTimeline]_vars

\* the user sends a chat message (at most MaxPlannerChats of them)
SendMessagePlanner == chatsSent < MaxPlannerChats /\ handleSendMessage

NextPlanner ==
    \/ typeMessage
    \/ PackageSelect
    \/ SendMessagePlanner
    \/ ChatResponse
    \/ ResetSession
    \/ ResetSettled

\* the travel planner alone, with the wizard left at its first stage
SpecPlanner == Init /\ [][NextPlanner]_vars

\* the responses of a backend whose every call succeeds
ChatResponseOk ==
    \E k \in DOMAIN calls, pkg \in Packages \cup {"null"} : chatResponse(k, "ok", pkg)

PaymentMethodsResponseOk == \E k \in DOMAIN calls : paymentMethodsResponse(k, "ok")

SelectPackageResponseOk == \E k \in DOMAIN calls : selectPackageResponse(k, "ok")

CreateCartMandateResponseOk == \E k \in DOMAIN calls : createCartMandateResponse(k, "ok")

ProcessPaymentResponseOk == \E k \in DOMAIN calls : processPaymentResponse(k, "ok")

NextSeqOk ==
    \/ typeMessage
    \/ PackageSelect
    \/ SendMessage
    \/ ChatResponseOk
    \/ ResetSession
    \/ ResetSettled
    \/ PaymentMethodsResponseOk
    \/ handleSignIntent
    \/ SignIntentDelayed
    \/ SelectPackageResponseOk
    \/ SignIntentTimer
    \/ onContinue
    \/ SelectPayment
    \/ CreateCartMandateResponseOk
    \/ handleSignCart
    \/ SignCartDelayed
    \/ ProcessPayment
    \/ ProcessPaymentResponseOk

\* the sequencer with a backend that never fails, an event loop that runs
\* every timer and settles every fetch, and a user who presses the button of
\* each step that is shown
SpecSeqOk ==
    /\ Init
    /\ [][NextSeqOk]_vars
    /\ WF_vars(PaymentMethodsResponseOk)
    /\ WF_vars(handleSignIntent)
    /\ WF_vars(SignIntentDelayed)
    /\ WF_vars(SelectPackageResponseOk)
    /\ WF_vars(SignIntentTimer)
    /\ WF_vars(onContinue)
    /\ WF_vars(SelectPayment)
    /\ WF_vars(CreateCartMandateResponseOk)
    /\ WF_vars(handleSignCart)
    /\ WF_vars(SignCartDelayed)
    /\ WF_vars(ProcessPayment)
    /\ WF_vars(ProcessPaymentResponseOk)

\* the stream of SpecBuf: after RichPrefix freely chosen events it repeats
\* the content of its last event, so that the buffers can be filled beyond
\* their capacity
DeliverBuf ==
    \E i \in DOMAIN sources, data \in BufData, id \in Ids :
        /\ Len(logHist) < MaxArrivals
        /\ \/ Len(logHist) < RichPrefix
           \/ /\ Len(logHist) >= RichPrefix
              /\ Stamped(logHist[Len(logHist)], 0) = data
              /\ id = 1
        /\ onmessage(i, Stamped(data, Len(logHist) + 1), id)

NextBuf ==
    \/ Open
    \/ DeliverBuf
    \/ clearLogs

\* the two buffers under long streams, on one connection
SpecBuf == Init /\ [][NextBuf]_vars

\* ------------------------------------------------------------------------
\* Claims
\* ------------------------------------------------------------------------
\* C1: the raw-log buffer never holds more than 500 entries and the message
\* buffer never more than 100, and each buffer is exactly the most recent
\* entries inserted since the last clear, in arrival order (the oldest entry
\* is the one evicted).
C1_BuffersBoundedFifo ==
    /\ Len(logs) <= 500
    /\ Len(messages) <= 100
    /\ logs = SliceLast(logHist, 500)
    /\ messages = SliceLast(msgHist, 100)

\* both buffers have evicted: more was inserted than they hold
C1_Witness ==
    /\ Len(logHist) > 500
    /\ Len(msgHist) > 100
    /\ Len(logs) = 500
    /\ Len(messages) = 100

\* C4: after teardown no new connection is ever opened, in particular when
\* teardown happens while a reconnection is scheduled after an error.
C4_NoConnectionAfterTeardown == [][unmounted => Len(sources') = Len(sources)]_vars

\* C7: every connection error closes the failed connection and schedules
\* exactly one reconnection attempt: the attempts made plus the one still
\* scheduled equal the errors handled, and while an attempt is scheduled no
\* connection is left open.
C7_OneReconnectPerError ==
    /\ (Len(sources) - 1) + timers = errorCount
    /\ timers <= 1
    /\ timers = 1 => \A i \in DOMAIN sources : sources[i] = "closed"

\* two errors in a row, two reconnection attempts made
C7_Witness == errorCount >= 2 /\ Len(sources) = errorCount + 1 /\ timers = 0

\* C8: at every moment at most one stream connection is not closed.
C8_AtMostOneConnection ==
    Cardinality({i \in DOMAIN sources : sources[i] # "closed"}) <= 1

\* a reconnection is live while the earlier connections are closed
C8_Witness ==
    /\ Len(sources) >= 2
    /\ sources[Len(sources)] = "open"
    /\ \A i \in 1..(Len(sources) - 1) : sources[i] = "closed"

\* C9: the connection-state flag is false until the first successful open,
\* true from each successful open on, false from each connection error on
\* until the next successful open.
C9_FlagFollowsOpenAndError == isConnected <=> (lastConnEvent = "open")

\* the flag is false again while a reconnection is under way after an open
C9_Witness ==
    /\ lastConnEvent = "error"
    /\ ~isConnected
    /\ Len(sources) >= 2
    /\ sources[Len(sources)] = "connecting"
    /\ sources[1] = "closed"

\* C10: while the component stays mounted, the n-th connection error is
\* eventually followed by the n-th reconnection attempt, for every n.
C10_AlwaysReconnects ==
    \A n \in 1..MaxErrors : (errorCount >= n) ~> (Len(sources) >= n + 1)

\* the last error the environment raises has been followed by an attempt
C10_Witness ==
    /\ ~unmounted
    /\ errorCount = MaxErrors
    /\ Len(sources) = MaxErrors + 1
    /\ lastConnEvent = "error"

\* error holds a message (it is neither null nor undefined)
ErrorSet(e) == e \notin {"null", "undefined"}

\* C2: when a createCartMandate call issued from stage 3 fails (success:false
\* with or without an error field, or a transport or parse failure),
\* currentStep stays 3, no cart mandate is stored and error is non-null.
C2_FailedCartMandateSetsError ==
    [][\A k \in DOMAIN calls, outcome \in Outcomes \ {"ok"} :
          (currentStep = 3 /\ createCartMandateResponse(k, outcome))
              => (currentStep' = 3 /\ cartMandate' = "null" /\ ErrorSet(error'))]_vars

\* C3: a successful createCartMandate retry from stage 3 after a failed one
\* has set the error clears the error, stores the mandate and advances to 4.
C3_RetryClearsError ==
    [][\A k \in DOMAIN calls :
          (currentStep = 3 /\ ErrorSet(error) /\ createCartMandateResponse(k, "ok"))
              => (error' = "null" /\ cartMandate' = "cart_mandate" /\ currentStep' = 4)]_vars

\* the call was issued in a session that is no longer the current one
Stale(call) == call.session # appSession

\* C5: a createCartMandate or processPayment response that arrives after the
\* session was reset stores no cart mandate, confirmation or error, does not
\* change currentStep and does not invoke the completion callback.
C5_LateResponseIgnored ==
    [][\A k \in DOMAIN calls, outcome \in Outcomes :
          (/\ Stale(calls[k])
           /\ \/ createCartMandateResponse(k, outcome)
              \/ processPaymentResponse(k, outcome))
              => UNCHANGED <<cartMandate, confirmation, error, currentStep, completions>>]_vars

\* C6: after an external session reset currentStep is 1 and partialCart,
\* selectedPaymentToken, cartMandate, confirmation and error are all empty.
C6_ResetDiscardsSequencerState ==
    [][\A k \in DOMAIN calls :
          resetSettled(k)
              => (/\ currentStep' = 1
                  /\ partialCart' = "null"
                  /\ selectedPaymentToken' = "null"
                  /\ cartMandate' = "null"
                  /\ confirmation' = "null"
                  /\ error' = "null")]_vars

\* ------------------------------------------------------------------------
\* Claims on dropped stream lines and on the checkout sequencer's calls
\* ------------------------------------------------------------------------
\* event.data is not a LogRecord: it is not JSON, or it is JSON that is not
\* an object with a text message
NotALogRecord(data) ==
    \/ data.type # "object"
    \/ data.mtype # "string"

\* C11: a stream line that is not a LogRecord (malformed JSON, null, an
\* object whose message is not a string) changes neither buffer and leaves
\* the connection open, and the timeline is still computed from the buffer.
C11_UnparsableLineDropped ==
    /\ [][\A i \in DOMAIN sources, data \in StreamData, id \in Ids :
             (NotALogRecord(data) /\ onmessage(i, Stamped(data, Len(logHist) + 1), id))
                 => (logs' = logs /\ messages' = messages /\ sources' = sources)]_vars
    /\ [](~TimelineThrows(logs))

\* C12: when the processPayment call fails (success:false with or without an
\* error field, or a transport failure) currentStep stays 5, no confirmation
\* is stored and error is non-null; currentStep never leaves 5 again.
C12_FailedPaymentShowsError ==
    /\ [][\A k \in DOMAIN calls, outcome \in Outcomes \ {"ok"} :
             processPaymentResponse(k, outcome)
                 => (currentStep' = 5 /\ confirmation' = confirmation /\ ErrorSet(error'))]_vars
    /\ [][currentStep = 5 => currentStep' = 5]_vars

\* the stage-advancing backend calls that await their response: select-package
\* (handleSignIntent), create-cart-mandate (handleSelectPayment), process-payment
StageCallsInFlight ==
    {k \in DOMAIN calls :
        /\ calls[k].phase = "fetch"
        /\ calls[k].op \in {"handleSignIntent", "handleSelectPayment", "processPayment"}}

\* C13: at most one stage-advancing backend call is in flight, and while one
\* is in flight the user action that started it is not available.
C13_OneStageCallInFlight ==
    /\ Cardinality(StageCallsInFlight) <= 1
    /\ \A k \in StageCallsInFlight :
          /\ calls[k].op = "handleSignIntent" => ~ENABLED handleSignIntent
          /\ calls[k].op = "handleSelectPayment" => ~ENABLED SelectPayment
          /\ calls[k].op = "processPayment" => ~ENABLED handleSignCart

\* a create-cart-mandate call is in flight at stage 3 of a rendered wizard
\* whose payment buttons are listed
C13_Witness ==
    /\ \E k \in StageCallsInFlight : calls[k].op = "handleSelectPayment"
    /\ Rendered
    /\ currentStep = 3
    /\ paymentMethods # <<>>

\* handleSignIntent has started and has not finished
SignIntentPending == \E k \in DOMAIN calls : calls[k].op = "handleSignIntent"

\* C14: after the sign-intent action the delay sets intentSigned, and
\* currentStep becomes 2 whatever the outcome of the select-package call;
\* partialCart is stored only by a successful select-package response.
C14_SignIntentAlwaysAdvances ==
    /\ SignIntentPending ~> (intentSigned /\ currentStep = 2)
    /\ [][\A k \in DOMAIN calls : signIntentDelayed(k) => intentSigned']_vars
    /\ [][partialCart' # partialCart
             => \E k \in DOMAIN calls : selectPackageResponse(k, "ok")]_vars

\* the wizard reached stage 2 with the intent signed although the
\* select-package call stored no cart
C14_Witness ==
    /\ currentStep = 2
    /\ intentSigned
    /\ partialCart = "null"
    /\ ~SignIntentPending

\* C15: currentStep stays within 1..5 and every change of it is an increase
\* by exactly one, in every interleaving of user actions, timers and responses.
C15_StepsAdvanceByOne ==
    /\ [](currentStep \in 1..5)
    /\ [][currentStep' # currentStep => currentStep' = currentStep + 1]_vars

\* the wizard went through all the stages
C15_Witness ==
    /\ currentStep = 5
    /\ cartSigned
    /\ intentSigned

\* C16: processPayment issues its call only when a cart mandate is stored
\* (which only a successful create-cart-mandate response stores) and the cart
\* was signed; handleSelectPayment issues its call only at stage 3 with the
\* intent signed.
C16_DependentCallsSequenced ==
    /\ [][\A k \in DOMAIN calls :
             processPayment(k) => (cartMandate = "cart_mandate" /\ cartSigned)]_vars
    /\ [][cartMandate' # cartMandate
             => \E k \in DOMAIN calls : createCartMandateResponse(k, "ok")]_vars
    /\ [][\A token \in Range(paymentMethods) :
             handleSelectPayment(token) => (intentSigned /\ currentStep = 3)]_vars

\* the process-payment call is in flight, issued with a stored mandate and a
\* signed cart
C16_Witness ==
    /\ \E k \in DOMAIN calls : Suspended(k, "processPayment", "fetch")
    /\ cartMandate = "cart_mandate"
    /\ cartSigned
    /\ intentSigned

\* a step in which the sequencer issues a create-cart-mandate call or a
\* process-payment call
IssuesSessionCall ==
    \/ \E token \in Range(paymentMethods) : handleSelectPayment(token)
    \/ \E k \in DOMAIN calls : processPayment(k)

\* C17: while no session is available (sessionData is null) no
\* create-cart-mandate or process-payment call is issued and the step that
\* would issue one leaves the sequencer state unchanged.
C17_NoSessionBlocksCalls ==
    [][appSession = 0 => ~IssuesSessionCall]_vars

\* what the continue action leaves alone besides currentStep and the requests
ContinueFrame ==
    UNCHANGED <<intentSigned, paymentMethods, selectedPaymentToken, cartMandate, cartSigned,
                confirmation, isProcessing, partialCart, error, appVars, plannerVars,
                worldVars>>

\* C18 as stated: the continue action at stage 2 moves currentStep to 3,
\* sends no request and changes nothing else.
C18_ContinueSendsNothing ==
    [][onContinue => (currentStep' = 3 /\ calls' = calls /\ ContinueFrame)]_vars

\* C18, amended: the continue action at stage 2 moves currentStep to 3 and
\* changes nothing else, and entering stage 3 sends exactly one request, the
\* payment-methods fetch of the current session, and no stage-advancing call.
C18_ContinueFetchesPaymentMethods ==
    [][onContinue =>
          /\ currentStep' = 3
          /\ calls' = Append(calls, Call("fetchPaymentMethods", "fetch", appSession, ""))
          /\ appSession # 0
          /\ StageCallsInFlight' = StageCallsInFlight
          /\ ContinueFrame]_vars

\* stage 3 was entered and its payment-methods fetch is in flight
C18_Witness ==
    /\ currentStep = 3
    /\ paymentMethods = <<>>
    /\ \E k \in DOMAIN calls : Suspended(k, "fetchPaymentMethods", "fetch")

\* ------------------------------------------------------------------------
\* Claims on the mandate timeline
\* ------------------------------------------------------------------------
\* the timeline rendered from ls shows entry n as completed
StepCompleted(ls, n) ==
    /\ ~MandateTimelineView(ls).threw
    /\ MandateTimelineView(ls).status[n] = "completed"

\* the timeline rendered from ls shows entry n as pending
StepPending(ls, n) ==
    /\ ~MandateTimelineView(ls).threw
    /\ MandateTimelineView(ls).status[n] = "pending"

\* C19: timeline stage 1 (Intent Capture) is completed if and only if some
\* record of the raw-log buffer has a text that contains 'IntentMandate' or,
\* without regard to case, both 'intent' and 'creat'.
C19_IntentStageIffEvidence ==
    StepCompleted(logs, 1)
        <=> \E i \in DOMAIN logs :
                /\ logs[i].type = "object"
                /\ logs[i].mtype = "string"
                /\ \/ Includes(logs[i].message, "IntentMandate")
                   \/ /\ Includes(ToLowerCase(logs[i].message), "intent")
                      /\ Includes(ToLowerCase(logs[i].message), "creat")

\* the record counts as evidence for timeline entry n (lines 353-378)
IsEvidence(log, n) ==
    /\ log.type = "object"
    /\ log.mtype = "string"
    /\ isRelevant(log)
    /\ CASE n \in {1, 2} -> intentRule(log)
         [] n = 3 -> packagesRule(log)
         [] n = 4 -> cartMandateRule(log)
         [] OTHER -> paymentRule(log)

\* C20: the timeline depends on the current contents of the raw-log buffer
\* only: an entry for which the buffer holds no evidence (it never arrived,
\* was evicted or was cleared) is shown as pending.
C20_NoEvidenceMeansPending ==
    \A n \in 1..5 :
        (\A i \in DOMAIN logs : ~IsEvidence(logs[i], n)) => StepPending(logs, n)

\* C21: the timeline is causally ordered: an entry shown as completed implies
\* that every earlier entry is shown as completed.
C21_TimelineCausallyOrdered ==
    \A n \in 2..5 : StepCompleted(logs, n) => StepCompleted(logs, n - 1)

\* ------------------------------------------------------------------------
\* Claims on the classifier
\* ------------------------------------------------------------------------
\* the record has a message text that contains one of the two markers
Qualifies(rec) ==
    /\ rec.type = "object"
    /\ rec.mtype = "string"
    /\ \/ Includes(rec.message, "A2A SENT:")
       \/ Includes(rec.message, "A2A RECEIVED:")

\* C22: a received record adds exactly one entry to the message buffer if its
\* text contains 'A2A SENT:' or 'A2A RECEIVED:' and none otherwise; every
\* record that parses is appended to the raw-log buffer in either case.
C22_MarkerDecidesMessage ==
    [][\A i \in DOMAIN sources, data \in StreamData, id \in Ids :
          LET rec == Stamped(data, Len(logHist) + 1)
          IN onmessage(i, rec, id) =>
                /\ Qualifies(rec) =>
                      /\ Len(msgHist') = Len(msgHist) + 1
                      /\ Len(messages') = Len(messages) + 1
                      /\ messages'[Len(messages')].rawMessage = rec.message
                      /\ SubSeq(messages', 1, Len(messages)) = messages
                /\ ~Qualifies(rec) => (messages' = messages /\ msgHist' = msgHist)
                /\ ~ParseThrows(rec) =>
                      /\ logs' = Append(logs, rec)
                      /\ logHist' = Append(logHist, rec)]_vars

\* records that qualify and records that do not have both been received
C22_Witness ==
    /\ Len(messages) >= 1
    /\ Len(logs) > Len(messages)
    /\ \E j \in DOMAIN logs : logs[j].type = "object" /\ ~Qualifies(logs[j])

\* the message that the step appended to the message buffer
Appended == messages'[Len(messages')]

\* C23: for a qualifying record with an agent field whose text holds an arrow
\* pair 'A -> B': with the outbound marker the message is outgoing, from the
\* record's agent, to B without its '_agent' suffix; with the inbound marker
\* it is incoming, from A without its '_agent' suffix, to the record's agent.
C23_ArrowPairAssignsFromTo ==
    [][\A i \in DOMAIN sources, data \in StreamData, id \in Ids :
          LET rec == Stamped(data, Len(logHist) + 1)
              StripSuffix(name) ==
                  IF Len(name) >= 6 /\ SubSeq(name, Len(name) - 5, Len(name)) = "_agent"
                  THEN SubSeq(name, 1, Len(name) - 6)
                  ELSE name
          IN (/\ onmessage(i, rec, id)
              /\ Qualifies(rec)
              /\ rec.agent # ""
              /\ ArrowMatch(rec.message) # <<>>)
             => IF Includes(rec.message, "A2A SENT:")
                THEN /\ Appended.direction = "outgoing"
                     /\ Appended.from = rec.agent
                     /\ Appended.to = StripSuffix(ArrowMatch(rec.message)[2])
                ELSE /\ Appended.direction = "incoming"
                     /\ Appended.from = StripSuffix(ArrowMatch(rec.message)[1])
                     /\ Appended.to = rec.agent]_vars

\* C24: every message appended for a qualifying record with an agent field,
\* with or without an arrow pair, is direction-consistent: an outgoing
\* message is from the observing agent (the record's agent) to another
\* party, an incoming message is to the observing agent from another party.
C24_DirectionConsistent ==
    [][\A i \in DOMAIN sources, data \in StreamData, id \in Ids :
          LET rec == Stamped(data, Len(logHist) + 1)
          IN (onmessage(i, rec, id) /\ Qualifies(rec) /\ rec.agent # "")
             => /\ Appended.direction \in {"outgoing", "incoming"}
                /\ Appended.direction = "outgoing"
                      => (Appended.from = rec.agent /\ Appended.to # rec.agent)
                /\ Appended.direction = "incoming"
                      => (Appended.to = rec.agent /\ Appended.from # rec.agent)]_vars

\* the direction that the marker of a qualifying record stands for
MarkerDirection(rec) ==
    IF Includes(rec.message, "A2A SENT:") THEN "outgoing" ELSE "incoming"

\* C25 as stated: for a qualifying record without an arrow pair the message
\* is from the record's agent field, to 'unknown', with the direction of the
\* marker.
C25_FallbackFromAgent ==
    [][\A i \in DOMAIN sources, data \in StreamData, id \in Ids :
          LET rec == Stamped(data, Len(logHist) + 1)
          IN (onmessage(i, rec, id) /\ Qualifies(rec) /\ ArrowMatch(rec.message) = <<>>)
             => /\ Appended.from = rec.agent
                /\ Appended.to = "unknown"
                /\ Appended.direction = MarkerDirection(rec)]_vars

\* C25, amended: for a qualifying record without an arrow pair the message is
\* from the record's agent field, or from 'shopping' when the record has no
\* agent, to 'unknown', with the direction of the marker.
C25_FallbackFromAgentOrDefault ==
    [][\A i \in DOMAIN sources, data \in StreamData, id \in Ids :
          LET rec == Stamped(data, Len(logHist) + 1)
          IN (onmessage(i, rec, id) /\ Qualifies(rec) /\ ArrowMatch(rec.message) = <<>>)
             => /\ Appended.from = (IF rec.agent # "" THEN rec.agent ELSE "shopping")
                /\ Appended.to = "unknown"
                /\ Appended.direction = MarkerDirection(rec)]_vars

\* the buffer holds a fallback message of a record with an agent and one of a
\* record without
C25_Witness ==
    /\ \E j \in DOMAIN messages :
          messages[j].to = "unknown" /\ messages[j].from = "merchant_agent"
    /\ \E j \in DOMAIN messages :
          messages[j].to = "unknown" /\ messages[j].from = "shopping"

\* C26: a name taken from the arrow pair (the destination of an outbound
\* record, the source of an inbound record) is normalized by removing a
\* trailing '_agent' only: a name that does not end in '_agent' is unchanged.
C26_OnlyTrailingSuffixRemoved ==
    [][\A i \in DOMAIN sources, data \in StreamData, id \in Ids :
          LET rec == Stamped(data, Len(logHist) + 1)
              pair == ArrowMatch(rec.message)
              EndsWithAgent(name) ==
                  Len(name) >= 6 /\ SubSeq(name, Len(name) - 5, Len(name)) = "_agent"
              Normalized(name) ==
                  IF EndsWithAgent(name) THEN SubSeq(name, 1, Len(name) - 6) ELSE name
          IN (onmessage(i, rec, id) /\ Qualifies(rec) /\ pair # <<>>)
             => IF MarkerDirection(rec) = "outgoing"
                THEN Appended.to = Normalized(pair[2])
                ELSE Appended.from = Normalized(pair[1])]_vars

\* C27: classifying the same record twice yields messages that are identical
\* in every field, id included: whatever the second classification draws,
\* its message equals the one the first classification appended.
C27_ClassifierDeterministic ==
    [][\A i \in DOMAIN sources, data \in StreamData, id \in Ids, again \in Ids :
          LET rec == Stamped(data, Len(logHist) + 1)
          IN (onmessage(i, rec, id) /\ Qualifies(rec))
             => ProtocolMessage(rec, again) = Appended]_vars

\* ------------------------------------------------------------------------
\* Claims on clearing
\* ------------------------------------------------------------------------
\* the message was built from the record
BuiltFrom(msg, rec) ==
    /\ Qualifies(rec)
    /\ msg.timestamp = rec.timestamp
    /\ msg.rawMessage = rec.message

\* C28: clearing empties the raw-log buffer and the message buffer together:
\* whenever one buffer is emptied the other is empty in the same state, and in
\* every state, records arriving around a clear included, the message buffer
\* holds the messages of the qualifying records of the raw-log buffer and no
\* others (no buffer keeps entries from before a clear that emptied the other).
C28_ClearEmptiesBothBuffers ==
    /\ [][clearLogs => (logs' = <<>> /\ messages' = <<>>)]_vars
    /\ [][(logs # <<>> /\ logs' = <<>>) => messages' = <<>>]_vars
    /\ [][(messages # <<>> /\ messages' = <<>>) => logs' = <<>>]_vars
    /\ [](\A j \in DOMAIN messages : \E k \in DOMAIN logs : BuiltFrom(messages[j], logs[k]))
    /\ [](\A k \in DOMAIN logs :
             Qualifies(logs[k]) => \E j \in DOMAIN messages : BuiltFrom(messages[j], logs[k]))

\* after a clear, records have arrived again, one of them a protocol message
C28_Witness ==
    /\ cleared
    /\ Len(logs) = 2
    /\ Len(messages) = 1

\* ------------------------------------------------------------------------
\* Claims on the tamper detector
\* ------------------------------------------------------------------------
\* the two texts differ in at least one character
DiffersInSomeCharacter(s, t) ==
    \/ Len(s) # Len(t)
    \/ \E k \in 1..Len(s) : Char(s, k) # Char(t, k)

\* C29: the viewer reports the mandate invalid if and only if an edited
\* serialization is present and differs from the canonical one in at least
\* one character; with no edited form or an identical one it reports valid,
\* and an edit that differs in white space only is reported invalid.
C29_InvalidIffEditedDiffers ==
    shown # "none" =>
        /\ shown = "invalid"
              <=> (/\ editedJson.present
                   /\ DiffersInSomeCharacter(editedJson.text, jsonString(mandate)))
        /\ ~editedJson.present => shown = "valid"
        /\ (editedJson.present /\ editedJson.text = CompactJson(mandate) /\ mandate # <<>>)
              => shown = "invalid"

\* the viewer rendered a mandate whose edited form differs from the canonical
\* form in white space only
C29_Witness ==
    /\ shown = "invalid"
    /\ mandate = <<<<"a", "1">>>>
    /\ editedJson = Edited("{\"a\":1}")

\* ------------------------------------------------------------------------
\* Claims on the sequencer's outputs
\* ------------------------------------------------------------------------
\* C30: error and confirmation are never both set: whenever a confirmation is
\* stored, error holds no message.
C30_ConfirmationExcludesError == confirmation # "null" => ~ErrorSet(error)

\* C31: isProcessing is true while a select-package, create-cart-mandate or
\* process-payment call is in flight, and the response of such a call leaves
\* it false.
C31_ProcessingWhileInFlight ==
    /\ [](StageCallsInFlight # {} => isProcessing)
    /\ [][\A k \in DOMAIN calls, outcome \in Outcomes :
             (\/ selectPackageResponse(k, outcome)
              \/ createCartMandateResponse(k, outcome)
              \/ processPaymentResponse(k, outcome)) => ~isProcessing']_vars

\* the wizard finished: stage 5 shows a stored confirmation, nothing is being
\* processed, no error is set and onComplete ran once
CheckoutDone ==
    /\ currentStep = 5
    /\ confirmation # "null"
    /\ ~isProcessing
    /\ ~ErrorSet(error)
    /\ completions = 1

\* C32: when every backend call succeeds and the user performs the action of
\* each step of a wizard that stays shown, the sequencer eventually is at
\* stage 5 with a confirmation, isProcessing false and error null, and
\* onComplete has been invoked exactly once (and never more than once).
C32_HappyPathCompletes ==
    /\ <>[]Rendered => <>CheckoutDone
    /\ [](completions <= 1)
    /\ [](CheckoutDone => [](Rendered => CheckoutDone))

\* a shown wizard has finished
C32_Witness == Rendered /\ CheckoutDone

\* C33: the viewer of the application never assigns editedJson: in every
\* reachable state it is null, isModified is false, and every header that
\* was rendered is 'Signature Valid', whatever the user presses and whatever
\* mandates the parent passes.
C33_TamperStateUnreachable ==
    /\ editedJson = NoEdit
    /\ ~isModified(editedJson, jsonString(mandate))
    /\ shown \in {"none", "valid"}

\* the header was rendered for a mandate that replaced the first one, in the
\* raw view, after Copy was pressed
C33_Witness ==
    /\ shown = "valid"
    /\ mandate # <<>>
    /\ mode = "raw"
    /\ copied

\* C34: the settling of a listPaymentMethods call leaves a non-empty list of
\* payment methods: the server's list when the call succeeded, the built-in
\* list of three tokens when it failed in any way.
C34_PaymentMethodsNeverEmpty ==
    [][\A k \in DOMAIN calls, outcome \in {"ok", "fail_error", "throw"} :
          paymentMethodsResponse(k, outcome)
              => /\ paymentMethods' # <<>>
                 /\ paymentMethods' = IF outcome = "ok" THEN ServerMethods
                                      ELSE FallbackMethods]_vars

\* the planner holds no session data, no chat entry and no selected package
PlannerEmpty ==
    /\ plSession = 0
    /\ chatHistory = <<>>
    /\ selectedPackageId = "null"

\* C35: once a reset has completed, the planner's session data, chat history
\* and selected package stay empty until the user sends a message: the only
\* step that ends the empty state is handleSendMessage, never the response
\* to a chat message sent before the reset.
C35_ResetStaysEmptyUntilSend ==
    [][(resetsStarted > 0 /\ PlannerEmpty /\ ~PlannerEmpty') => handleSendMessage]_vars

\* C36: whenever the timeline renders, its entries 1 (Intent Capture) and 2
\* (Intent Signed) have the same status.
C36_IntentStagesAgree ==
    LET view == MandateTimelineView(logs)
    IN ~view.threw => view.status[1] = view.status[2]

\* the timeline renders with the intent entries completed and the payment
\* entry pending
C36_Witness ==
    LET view == MandateTimelineView(logs)
    IN /\ ~view.threw
       /\ view.status[1] = "completed"
       /\ view.status[2] = "completed"
       /\ view.status[5] = "pending"

\* C37: the message buffer never holds more entries than the raw-log buffer,
\* whatever records arrive, whatever is evicted and whenever the buffers are
\* cleared.
C37_MessagesWithinLogs == Len(messages) <= Len(logs)

\* after a clear the message buffer is full and the raw-log buffer holds
\* exactly as many entries
C37_Witness ==
    /\ cleared
    /\ Len(messages) = 100
    /\ Len(logs) = 100

\* C38: every entry of the message buffer has status 'success', whatever the
\* level and the text of the record it was built from.
C38_EveryMessageSuccess ==
    \A i \in DOMAIN messages : messages[i].status = "success"

\* the buffer holds the message of a record of level ERROR, with status
\* 'success'
C38_Witness ==
    /\ SentNoArrow.level = "ERROR"
    /\ \E i \in DOMAIN messages :
          /\ messages[i].rawMessage = SentNoArrow.message
          /\ messages[i].status = "success"
====
